---- MODULE Spec2Model ----
(***************************************************************************)
(* The user-record store of backend/routes/users.js and its REST handlers. *)
(*                                                                         *)
(* The backing file holds one JSON array of user records.  Every handler   *)
(* reads the whole file, changes the array in memory and writes the whole  *)
(* file back.  The router mounted by app.js is the one of users.js lines   *)
(* 254-576 (variant "cur"); users.js also carries an older router (lines   *)
(* 1-252, variant "old") whose create and update spread the request body   *)
(* over the record.                                                        *)
(*                                                                         *)
(* JavaScript values are modelled as tuples of strings:                    *)
(*   a string      the tuple of its characters, "" is << >>                *)
(*   undefined     Undef (also a key that is absent from an object:        *)
(*                 every record the handlers see was parsed from JSON,     *)
(*                 and JSON.stringify drops keys whose value is undefined) *)
(*   a number      <<"number">> followed by its decimal digits             *)
(*   an object     a one-element tuple holding a token for the object      *)
(***************************************************************************)
EXTENDS Integers, Sequences, FiniteSets, TLC

VARIABLES
    file,      \* the backing file DATA_FILE: [state, users]
    now,       \* the value Date.now() returns, in milliseconds
    res,       \* the response to the last request
    created,   \* history: the ids that successful creates have returned
    deleted,   \* history: the ids deleted with 204 and not returned by a create since
    variant,   \* which router of users.js serves the requests
    pending    \* the write requests that have read the file and not yet written it

vars == <<file, now, res, created, deleted, variant, pending>>

---------------------------------------------------------------------------
(* Bounds of the model *)

\* The creates stop when the collection holds this many records.
MaxUsers == 2

\* The clock stops at this many milliseconds.
MaxClock == 2

\* At most this many write requests are between their read and their write.
MaxPending == 2

---------------------------------------------------------------------------
(* JavaScript values *)

Undef == <<"undefined">>

\* Objects that the handlers only pass through.
DefaultGeo == <<"{lat:'',lng:''}">>
DefaultCompany == <<"{name:'',catchPhrase:'',bs:''}">>
EmptyObject == <<"{}">>

Objects == {DefaultGeo, DefaultCompany, EmptyObject}

Truthy(v) == v # Undef /\ v # << >>

\* a || b
Or(a, b) == IF Truthy(a) THEN a ELSE b

\* The string a validator or sanitizer of express-validator works on.
ToStr(v) == IF v = Undef THEN << >> ELSE v

LowerCase == {"a","b","c","d","e","f","g","h","i","j","k","l","m",
              "n","o","p","q","r","s","t","u","v","w","x","y","z"}
UpperCase == {"A","B","C","D","E","F","G","H","I","J","K","L","M",
              "N","O","P","Q","R","S","T","U","V","W","X","Y","Z"}
Digit == {"0","1","2","3","4","5","6","7","8","9"}
Letter == LowerCase \cup UpperCase

DigitChars == <<"0","1","2","3","4","5","6","7","8","9">>

RECURSIVE NumToString(_)
\* Number.prototype.toString() of a non-negative integer
NumToString(n) ==
    IF n < 10 THEN <<DigitChars[n + 1]>>
    ELSE NumToString(n \div 10) \o <<DigitChars[(n % 10) + 1]>>

\* A JavaScript number, and NaN.
Num(n) == <<"number">> \o NumToString(n)
NaN == <<"NaN">>
IsNumber(v) == v # << >> /\ Head(v) \in {"number", "NaN"}

DigitValue(c) == CHOOSE n \in 0..9 : DigitChars[n + 1] = c

RECURSIVE DigitsToNat(_)
DigitsToNat(s) ==
    IF s = << >> THEN 0
    ELSE 10 * DigitsToNat(SubSeq(s, 1, Len(s) - 1)) + DigitValue(s[Len(s)])

RECURSIVE LeadingDigits(_)
LeadingDigits(s) ==
    IF s # << >> /\ Head(s) \in Digit THEN <<Head(s)>> \o LeadingDigits(Tail(s)) ELSE << >>

RECURSIVE LTrim(_)
LTrim(s) == IF s # << >> /\ Head(s) = " " THEN LTrim(Tail(s)) ELSE s

RECURSIVE RTrim(_)
RTrim(s) == IF s # << >> /\ s[Len(s)] = " " THEN RTrim(SubSeq(s, 1, Len(s) - 1)) ELSE s

\* .trim()
Trim(s) == RTrim(LTrim(s))

\* The sanitizer writes back only a value that is there.
TrimField(v) == IF v = Undef THEN Undef ELSE Trim(v)

AllIn(s, chars) == \A i \in 1..Len(s) : s[i] \in chars

IsString(v) == v # Undef /\ ~IsNumber(v) /\ v \notin Objects

\* parseInt(s) of a string without a sign
ParseInt(s) ==
    LET d == LeadingDigits(LTrim(s))
    IN IF d = << >> THEN NaN ELSE Num(DigitsToNat(d))

\* Number(s), the conversion == applies to a string compared with a number
ToNumber(s) ==
    LET t == Trim(s)
    IN IF AllIn(t, Digit) THEN Num(DigitsToNat(t)) ELSE NaN

\* String(v) of a string or a number
String(v) == IF v # << >> /\ Head(v) = "number" THEN Tail(v) ELSE v

\* s.includes(t)
Includes(s, t) ==
    \E i \in 0..(Len(s) - Len(t)) : SubSeq(s, i + 1, i + Len(t)) = t

\* a === b
StrictEq(a, b) == a # NaN /\ b # NaN /\ a = b

\* a == b, where b is a string
LooseEq(a, b) == IF IsNumber(a) THEN StrictEq(a, ToNumber(b)) ELSE StrictEq(a, b)

LowerChars == <<"a","b","c","d","e","f","g","h","i","j","k","l","m",
                "n","o","p","q","r","s","t","u","v","w","x","y","z">>
UpperChars == <<"A","B","C","D","E","F","G","H","I","J","K","L","M",
                "N","O","P","Q","R","S","T","U","V","W","X","Y","Z">>

LowerOf(c) ==
    IF c \in UpperCase
    THEN LowerChars[CHOOSE i \in 1..26 : UpperChars[i] = c]
    ELSE c

\* .toLowerCase()
ToLowerCase(s) == [i \in 1..Len(s) |-> LowerOf(s[i])]

\* validator's escape() of one character
EscapeChar(c) ==
    CASE c = "&" -> <<"&","a","m","p",";">>
      [] c = "<" -> <<"&","l","t",";">>
      [] c = ">" -> <<"&","g","t",";">>
      [] c = "/" -> <<"&","#","x","2","F",";">>
      [] c = "'" -> <<"&","#","x","2","7",";">>
      [] c = "\\" -> <<"&","#","x","5","C",";">>
      [] OTHER -> <<c>>

RECURSIVE Escape(_)
\* .escape()
Escape(s) == IF s = << >> THEN << >> ELSE EscapeChar(Head(s)) \o Escape(Tail(s))

\* .matches(/^[a-zA-Z0-9_]+$/)
MatchesUsername(s) == Len(s) >= 1 /\ AllIn(s, Letter \cup Digit \cup {"_"})

MinUsernameLen == 3

EmailUserChars == Letter \cup Digit \cup
    {"!","#","$","%","&","'","*","+","-","/","=","?","^","_","{","|","}","~"}

\* The parts of s between the dots are all non-empty.
NoEmptyPart(s) ==
    /\ s # << >>
    /\ Head(s) # "."
    /\ s[Len(s)] # "."
    /\ \A i \in 1..(Len(s) - 1) : ~(s[i] = "." /\ s[i + 1] = ".")

LastIndexOf(s, c) ==
    IF \E i \in 1..Len(s) : s[i] = c
    THEN CHOOSE i \in 1..Len(s) : s[i] = c /\ \A j \in (i + 1)..Len(s) : s[j] # c
    ELSE 0

\* validator's isFQDN with its default options
IsFQDN(d) ==
    LET dot == LastIndexOf(d, ".")
        tld == SubSeq(d, dot + 1, Len(d))
    IN /\ dot > 0
       /\ NoEmptyPart(d)
       /\ Len(tld) >= 2
       /\ AllIn(tld, Letter)
       /\ AllIn(d, Letter \cup Digit \cup {"-", "."})
       /\ \A i \in 1..Len(d) :
            d[i] = "-" => /\ i > 1 /\ i < Len(d)
                          /\ d[i - 1] # "." /\ d[i + 1] # "."

\* .isEmail(): one "@", a dot-separated local part, a fully qualified domain
IsEmail(s) ==
    LET at == LastIndexOf(s, "@")
        user == SubSeq(s, 1, at - 1)
        domain == SubSeq(s, at + 1, Len(s))
    IN /\ at > 0
       /\ AllIn(user, EmailUserChars \cup {"."})
       /\ NoEmptyPart(user)
       /\ IsFQDN(domain)

---------------------------------------------------------------------------
(* Request bodies and records *)

\* req.body.address when the body has no address
NoAddress == [t |-> "undefined", street |-> Undef, city |-> Undef,
              zipcode |-> Undef, geo |-> Undef]

\* {}
EmptyAddress == [NoAddress EXCEPT !.t = "object"]

\* The keys a request body can carry.
BodyFields == {"id", "name", "username", "email", "address", "street", "city",
               "zipcode", "phone", "website", "company"}

\* a body without any key
EmptyBody == [id |-> Undef, name |-> Undef, username |-> Undef, email |-> Undef,
              address |-> NoAddress, street |-> Undef, city |-> Undef,
              zipcode |-> Undef, phone |-> Undef, website |-> Undef,
              company |-> Undef]

\* The body carries the key.
Supplies(b, k) == IF k = "address" THEN b.address.t # "undefined" ELSE b[k] # Undef

\* The top-level keys of the records router "cur" stores.
UserFields == {"id", "name", "username", "email", "address", "phone",
               "website", "company"}

---------------------------------------------------------------------------
(* The store *)

\* DATA_FILE before the first request: not there, whitespace, not JSON, or [].
AbsentFile == [state |-> "absent", users |-> << >>]
BlankFile == [state |-> "blank", users |-> << >>]
GarbageFile == [state |-> "garbage", users |-> << >>]

\* fs.writeFile(DATA_FILE, JSON.stringify(users, null, 2))
writeUsers(users) == [state |-> "json", users |-> users]

\* readUsers without the fs.writeFile of its catch block
readUsersNoWrite(f) ==
    [users |-> IF f.state = "json" THEN f.users ELSE << >>, file |-> f]

\* What readUsers returns and what the file holds when it returns.
readUsers(f) ==
    CASE f.state = "json" -> [users |-> f.users, file |-> f]
      [] f.state = "blank" -> [users |-> << >>, file |-> f]
      [] OTHER -> [users |-> << >>, file |-> writeUsers(<< >>)]

\* The collection the file stores.
Stored(f) == readUsers(f).users

---------------------------------------------------------------------------
(* Validation *)

Err(cond, field, message) ==
    IF cond THEN <<[field |-> field, message |-> message]>> ELSE << >>

\* body('address.street').optional().trim() and its two siblings
TrimAddress(a) ==
    IF a.t = "object"
    THEN [a EXCEPT !.street = TrimField(@), !.city = TrimField(@),
                   !.zipcode = TrimField(@)]
    ELSE a

\* Router "cur", validateRequest(createUserValidation): the errors found and
\* the body as the sanitizers leave it.
createUserValidation(b) ==
    LET name == Trim(ToStr(b.name))
        username == Trim(ToStr(b.username))
        email == Trim(ToStr(b.email))
    IN [errors |->
            Err(name = << >>, "name", "Name is required")
         \o Err(username = << >>, "username", "Username is required")
         \o Err(Len(username) < MinUsernameLen, "username",
                "Username must be at least 3 characters")
         \o Err(~MatchesUsername(username), "username",
                "Username can only contain letters, numbers, and underscores")
         \o Err(email = << >>, "email", "Email is required")
         \o Err(~IsEmail(email), "email", "Please provide a valid email"),
        body |-> [b EXCEPT !.name = TrimField(@), !.username = TrimField(@),
                           !.email = TrimField(@), !.address = TrimAddress(@)]]

\* updateUserValidation without the two checks of the username
updateUserValidationNoUsername(b) ==
    LET name == Trim(ToStr(b.name))
        email == Trim(ToStr(b.email))
    IN [errors |->
            Err(b.name # Undef /\ name = << >>, "name", "Name cannot be empty")
         \o Err(b.email # Undef /\ ~IsEmail(email), "email",
                "Please provide a valid email"),
        body |-> [b EXCEPT !.name = TrimField(@), !.username = TrimField(@),
                           !.email = TrimField(@), !.address = TrimAddress(@)]]

\* Router "cur", validateRequest(updateUserValidation): .optional() skips a
\* field that is undefined.
updateUserValidation(b) ==
    LET name == Trim(ToStr(b.name))
        username == Trim(ToStr(b.username))
        email == Trim(ToStr(b.email))
    IN [errors |->
            Err(b.name # Undef /\ name = << >>, "name", "Name cannot be empty")
         \o Err(b.username # Undef /\ Len(username) < MinUsernameLen, "username",
                "Username must be at least 3 characters")
         \o Err(b.username # Undef /\ ~MatchesUsername(username), "username",
                "Username can only contain letters, numbers, and underscores")
         \o Err(b.email # Undef /\ ~IsEmail(email), "email",
                "Please provide a valid email"),
        body |-> [b EXCEPT !.name = TrimField(@), !.username = TrimField(@),
                           !.email = TrimField(@), !.address = TrimAddress(@)]]

\* Router "num", userValidationRules, which POST and PUT share: name and
\* username are required, the email is checked and not trimmed.
userValidationRules(b) ==
    LET name == Trim(ToStr(b.name))
        username == Trim(ToStr(b.username))
    IN [errors |->
            Err(name = << >>, "name", "Name is required")
         \o Err(username = << >>, "username", "Username is required")
         \o Err(~IsEmail(ToStr(b.email)), "email", "Valid email is required"),
        body |-> [b EXCEPT !.name = TrimField(@), !.username = TrimField(@),
                           !.address = TrimAddress(@)]]

\* The length limits of router "old".
MaxNameLen == 100
MaxUsernameLen == 30
MaxStreetLen == 200
MaxCityLen == 100
MaxZipcodeLen == 20

\* .matches(/^[a-zA-Z0-9_.-]+$/)
MatchesUsernameOld(s) == Len(s) >= 1 /\ AllIn(s, Letter \cup Digit \cup {"_", ".", "-"})

\* .normalizeEmail() of an address whose domain has no rules of its own
NormalizeEmail(s) == ToLowerCase(s)

\* body('*').escape(): every top-level string of the body.  What the
\* sanitizer makes of the address object depends on the release of
\* express-validator; here the object passes as it is.
EscapeField(v) == IF IsString(v) THEN Escape(v) ELSE v

EscapeBody(b) ==
    [b EXCEPT !.id = EscapeField(@), !.name = EscapeField(@),
              !.username = EscapeField(@), !.email = EscapeField(@),
              !.street = EscapeField(@), !.city = EscapeField(@),
              !.zipcode = EscapeField(@), !.phone = EscapeField(@),
              !.website = EscapeField(@)]

\* the errors of the address rules of router "old"
AddressErrorsOld(a) ==
       Err(a.t \notin {"undefined", "object"}, "address", "Address must be an object")
    \o Err(a.t = "object" /\ Len(Trim(ToStr(a.street))) > MaxStreetLen, "address.street",
           "Street must be less than 200 characters")
    \o Err(a.t = "object" /\ Len(Trim(ToStr(a.city))) > MaxCityLen, "address.city",
           "City must be less than 100 characters")
    \o Err(a.t = "object" /\ Len(Trim(ToStr(a.zipcode))) > MaxZipcodeLen, "address.zipcode",
           "Zipcode must be less than 20 characters")

\* the body as the sanitizers of router "old" leave it
SanitizeOld(b) ==
    EscapeBody([b EXCEPT !.name = TrimField(@), !.username = TrimField(@),
                         !.email = IF @ = Undef THEN Undef ELSE NormalizeEmail(Trim(@)),
                         !.address = TrimAddress(@)])

\* Router "old", validateRequest(createUserValidation)
createUserValidationOld(b) ==
    LET name == Trim(ToStr(b.name))
        username == Trim(ToStr(b.username))
        email == Trim(ToStr(b.email))
    IN [errors |->
            Err(name = << >>, "name", "Name is required")
         \o Err(Len(name) > MaxNameLen, "name", "Name must be less than 100 characters")
         \o Err(username = << >>, "username", "Username is required")
         \o Err(Len(username) < MinUsernameLen \/ Len(username) > MaxUsernameLen,
                "username", "Username must be between 3-30 characters")
         \o Err(~MatchesUsernameOld(username), "username",
                "Username can only contain letters, numbers, underscores, periods, and hyphens")
         \o Err(email = << >>, "email", "Email is required")
         \o Err(~IsEmail(email), "email", "Please provide a valid email")
         \o AddressErrorsOld(b.address),
        body |-> SanitizeOld(b)]

\* Router "old", validateRequest(updateUserValidation)
updateUserValidationOld(b) ==
    LET name == Trim(ToStr(b.name))
        username == Trim(ToStr(b.username))
        email == Trim(ToStr(b.email))
    IN [errors |->
            Err(b.name # Undef /\ Len(name) > MaxNameLen, "name",
                "Name must be less than 100 characters")
         \o Err(b.username # Undef
                  /\ (Len(username) < MinUsernameLen \/ Len(username) > MaxUsernameLen),
                "username", "Username must be between 3-30 characters")
         \o Err(b.username # Undef /\ ~MatchesUsernameOld(username), "username",
                "Username can only contain letters, numbers, underscores, periods, and hyphens")
         \o Err(b.email # Undef /\ ~IsEmail(email), "email", "Please provide a valid email")
         \o AddressErrorsOld(b.address),
        body |-> SanitizeOld(b)]

---------------------------------------------------------------------------
(* utils/errors.js *)

\* new AppError(message, statusCode); a statusCode of 0 and a status of ""
\* stand for properties that are not there
AppError(message, statusCode) ==
    [name |-> "Error",
     message |-> message,
     statusCode |-> statusCode,
     status |-> IF statusCode \div 100 = 4 THEN "fail" ELSE "error",
     isOperational |-> TRUE,
     errors |-> << >>,
     code |-> 0,
     keyValue |-> ""]

ValidationError(errors) ==
    [AppError("Validation failed", 400) EXCEPT !.errors = errors, !.name = "ValidationError"]

NotFoundError(resource) ==
    [AppError(IF resource = "" THEN "Resource not found" ELSE resource \o " not found", 404)
        EXCEPT !.name = "NotFoundError"]

ConflictError(message) == [AppError(message, 409) EXCEPT !.name = "ConflictError"]

UnauthorizedError(message) == [AppError(message, 401) EXCEPT !.name = "UnauthorizedError"]

ForbiddenError(message) == [AppError(message, 403) EXCEPT !.name = "ForbiddenError"]

\* An error that is none of the classes of utils/errors.js, by its name
PlainError(name, message) ==
    [name |-> name, message |-> message, statusCode |-> 0, status |-> "",
     isOperational |-> FALSE, errors |-> << >>, code |-> 0, keyValue |-> ""]

\* The error of a duplicate key of MongoDB
DuplicateKeyError(field) ==
    [PlainError("MongoServerError", "E11000") EXCEPT !.code = 11000, !.keyValue = field]

\* el.path
PathOf(el) == IF "path" \in DOMAIN el THEN el.path ELSE Undef

\* errorHandler: the status and the JSON body of the response (stack and
\* error of the development mode left out)
errorHandler(err) ==
    LET validation == err.name \in {"ValidationError", "ValidatorError"}
        statusCode ==
            CASE validation -> 400
              [] err.name = "JsonWebTokenError" -> 401
              [] err.name = "TokenExpiredError" -> 401
              [] err.code = 11000 -> 409
              [] OTHER -> 0
        message ==
            CASE validation -> "Validation failed"
              [] err.name = "JsonWebTokenError" -> "Invalid token"
              [] err.name = "TokenExpiredError" -> "Token expired"
              [] err.code = 11000 -> err.keyValue \o " already exists"
              [] OTHER -> IF err.message # "" THEN err.message ELSE "Something went wrong"
    IN [status |-> IF statusCode # 0 THEN statusCode ELSE 500,
        body |-> [status |-> IF err.status # "" THEN err.status ELSE "error",
                  message |-> message,
                  errors |-> IF validation
                             THEN [i \in 1..Len(err.errors) |->
                                     [field |-> PathOf(err.errors[i]),
                                      message |-> err.errors[i].message]]
                             ELSE << >>]]

\* Router "cur", validateRequest: errorDetails, handed to errorHandler as a
\* ValidationError by next()
errorDetails(errors) ==
    [i \in 1..Len(errors) |->
        [field |-> errors[i].field, message |-> errors[i].message, location |-> "body"]]

\* The first router, validateRequest: the errors of its own 400 response
errorParams(errors) ==
    [i \in 1..Len(errors) |->
        [param |-> errors[i].field, message |-> errors[i].message, location |-> "body"]]

\* Router "num": errors.array()
errorsArray(errors) ==
    [i \in 1..Len(errors) |->
        [param |-> errors[i].field, msg |-> errors[i].message, location |-> "body"]]

---------------------------------------------------------------------------
(* Handlers.  Each yields the status, the records of the response body and *)
(* the file as the handler leaves it.                                      *)

Response(status, body, f) == [status |-> status, body |-> body, file |-> f]

\* users.findIndex(u => u.id == userId), 0 for -1
FindIndex(users, userId) ==
    IF \E i \in 1..Len(users) : LooseEq(users[i].id, userId)
    THEN CHOOSE i \in 1..Len(users) :
            /\ LooseEq(users[i].id, userId)
            /\ \A j \in 1..(i - 1) : ~LooseEq(users[j].id, userId)
    ELSE 0

\* Date.now().toString()
NewId(t) == NumToString(t)

\* users.splice(index), which takes out every record from the index on
SpliceToEnd(users, index) == SubSeq(users, 1, index - 1)

\* users.splice(index, 1)
Splice(users, index) ==
    SubSeq(users, 1, index - 1) \o SubSeq(users, index + 1, Len(users))

\* Router "cur": router.get('/:id')
GetUser(f, userId) ==
    LET r == readUsers(f)
        index == FindIndex(r.users, userId)
    IN IF index = 0
       THEN Response(404, << >>, r.file)
       ELSE Response(200, <<r.users[index]>>, r.file)

\* ExistingUser with the comparison of the emails left out
ExistingUserByUsername(users, b) ==
    \E i \in 1..Len(users) : StrictEq(users[i].username, b.username)

\* Router "cur": users.find(user => user.username === req.body.username ||
\* user.email === req.body.email)
ExistingUser(users, b) ==
    \E i \in 1..Len(users) :
        StrictEq(users[i].username, b.username) \/ StrictEq(users[i].email, b.email)

\* Router "cur": the record a create builds
NewUser(t, b) ==
    [id |-> NewId(t),
     name |-> b.name,
     username |-> b.username,
     email |-> b.email,
     address |-> [t |-> "object",
                  street |-> Or(Or(b.address.street, b.street), << >>),
                  city |-> Or(Or(b.address.city, b.city), << >>),
                  zipcode |-> Or(Or(b.address.zipcode, b.zipcode), << >>),
                  geo |-> Or(b.address.geo, DefaultGeo)],
     phone |-> Or(b.phone, << >>),
     website |-> Or(b.website, << >>),
     company |-> Or(b.company, DefaultCompany)]

\* CreateUser with the record appended and written before the check
CreateUserWriteFirst(f, t, b) ==
    LET r == readUsers(f)
        newUser == NewUser(t, b)
        written == writeUsers(Append(r.users, newUser))
    IN IF ExistingUser(r.users, b) THEN Response(409, << >>, written)
       ELSE Response(201, <<newUser>>, written)

\* CreateUser with users.unshift(newUser) for users.push(newUser)
CreateUserUnshift(f, t, b) ==
    LET r == readUsers(f)
        newUser == NewUser(t, b)
    IN IF ExistingUser(r.users, b) THEN Response(409, << >>, r.file)
       ELSE Response(201, <<newUser>>, writeUsers(<<newUser>> \o r.users))

\* Router "cur": the handler of router.post('/'), which the validation
\* middleware calls with the body it has sanitized
CreateUser(f, t, b) ==
    LET r == readUsers(f)
        newUser == NewUser(t, b)
    IN IF ExistingUser(r.users, b) THEN Response(409, << >>, r.file)
       ELSE Response(201, <<newUser>>, writeUsers(Append(r.users, newUser)))

\* function safeAddress(val)
safeAddress(val) == IF val.t = "object" THEN val ELSE EmptyAddress

\* { ...old, ...new } of two address objects
SpreadAddress(old, new) ==
    LET over(x, y) == IF y # Undef THEN y ELSE x
    IN [t |-> "object",
        street |-> over(old.street, new.street),
        city |-> over(old.city, new.city),
        zipcode |-> over(old.zipcode, new.zipcode),
        geo |-> over(old.geo, new.geo)]

\* DuplicateUser with the record under update not left out
DuplicateUserAnyIndex(users, index, b) ==
    \E i \in 1..Len(users) :
        StrictEq(users[i].username, b.username) \/ StrictEq(users[i].email, b.email)

\* Router "cur": users.find((user, i) => i !== index && (user.username ===
\* req.body.username || user.email === req.body.email))
DuplicateUser(users, index, b) ==
    \E i \in 1..Len(users) :
        /\ i # index
        /\ (StrictEq(users[i].username, b.username) \/ StrictEq(users[i].email, b.email))

\* Router "cur": updateData and updatedUser of router.put('/:id')
UpdatedUser(user, b) ==
    [id |-> user.id,
     name |-> b.name,
     username |-> b.username,
     email |-> b.email,
     phone |-> Or(b.phone, user.phone),
     website |-> Or(b.website, user.website),
     company |-> Or(Or(b.company, user.company), EmptyObject),
     address |-> SpreadAddress(
                     IF user.address.t = "undefined" THEN EmptyAddress ELSE user.address,
                     safeAddress(b.address))]

\* UpdateUser without the answer for an index of -1: reading users[-1].phone
\* throws, and the catch block answers 500
UpdateUserNoNotFound(f, userId, b) ==
    LET r == readUsers(f)
        users == r.users
        index == FindIndex(users, userId)
        updatedUser == UpdatedUser(users[index], b)
    IN IF index = 0 THEN Response(500, << >>, r.file)
       ELSE IF DuplicateUser(users, index, b) THEN Response(409, << >>, r.file)
       ELSE Response(200, <<updatedUser>>,
                     writeUsers([users EXCEPT ![index] = updatedUser]))

\* UpdateUser without the await writeUsers(users)
UpdateUserUnwritten(f, userId, b) ==
    LET r == readUsers(f)
        users == r.users
        index == FindIndex(users, userId)
        updatedUser == UpdatedUser(users[index], b)
    IN IF index = 0 THEN Response(404, << >>, r.file)
       ELSE IF DuplicateUser(users, index, b) THEN Response(409, << >>, r.file)
       ELSE Response(200, <<updatedUser>>, r.file)

\* Router "cur": the handler of router.put('/:id')
UpdateUser(f, userId, b) ==
    LET r == readUsers(f)
        users == r.users
        index == FindIndex(users, userId)
        updatedUser == UpdatedUser(users[index], b)
    IN IF index = 0 THEN Response(404, << >>, r.file)
       ELSE IF DuplicateUser(users, index, b) THEN Response(409, << >>, r.file)
       ELSE Response(200, <<updatedUser>>,
                     writeUsers([users EXCEPT ![index] = updatedUser]))

\* DeleteUser with users.splice(index, 1) and the write ahead of the test
\* of the index: splice(-1, 1) takes the last record out
DeleteUserSpliceFirst(f, userId) ==
    LET r == readUsers(f)
        index == FindIndex(r.users, userId)
    IN IF index = 0
       THEN Response(404, << >>, writeUsers(SubSeq(r.users, 1, Len(r.users) - 1)))
       ELSE Response(204, << >>, writeUsers(Splice(r.users, index)))

\* Router "cur": router.delete('/:id')
DeleteUser(f, userId) ==
    LET r == readUsers(f)
        index == FindIndex(r.users, userId)
    IN IF index = 0
       THEN Response(404, << >>, r.file)
       ELSE Response(204, << >>, writeUsers(Splice(r.users, index)))

---------------------------------------------------------------------------
(* Handlers of router "old" *)

\* new Date().toISOString()
IsoString(t) == <<"T">> \o NumToString(t)

\* users.findIndex(u => u.id === req.params.id), 0 for -1
FindIndexOld(users, userId) ==
    IF \E i \in 1..Len(users) : StrictEq(users[i].id, userId)
    THEN CHOOSE i \in 1..Len(users) :
            /\ StrictEq(users[i].id, userId)
            /\ \A j \in 1..(i - 1) : ~StrictEq(users[j].id, userId)
    ELSE 0

\* { ...user, ...req.body }: every key of the body replaces the record's
SpreadBody(user, b) ==
    [k \in BodyFields |-> IF Supplies(b, k) THEN b[k] ELSE user[k]]

\* Router "old": the record a create builds
NewUserOld(t, b) ==
    [k \in BodyFields \cup {"createdAt", "updatedAt"} |->
        IF k \in {"createdAt", "updatedAt"} THEN IsoString(t)
        ELSE SpreadBody([EmptyBody EXCEPT !.id = NewId(t)], b)[k]]

\* Router "old": updatedUser of router.put('/:id')
UpdatedUserOld(user, b, t) ==
    [k \in BodyFields \cup {"createdAt", "updatedAt"} |->
        IF k = "updatedAt" THEN IsoString(t)
        ELSE IF k = "createdAt" THEN user.createdAt
        ELSE SpreadBody(user, b)[k]]

\* Router "old": router.get('/:id')
GetUserOld(f, userId) ==
    LET r == readUsers(f)
        users == r.users
        match(u) == StrictEq(u.id, userId) \/ StrictEq(u.id, ParseInt(userId))
    IN IF \E i \in 1..Len(users) : match(users[i])
       THEN Response(200,
                     <<users[CHOOSE i \in 1..Len(users) :
                                /\ match(users[i])
                                /\ \A j \in 1..(i - 1) : ~match(users[j])]>>,
                     r.file)
       ELSE Response(404, << >>, r.file)

\* Router "old": the handler of router.post('/')
CreateUserOld(f, t, b) ==
    LET r == readUsers(f)
        newUser == NewUserOld(t, b)
    IN IF ExistingUser(r.users, b) THEN Response(400, << >>, r.file)
       ELSE Response(201, <<newUser>>, writeUsers(Append(r.users, newUser)))

\* Router "old": the check for a username or email in use by another user
DuplicateUserOld(users, userId, b) ==
    /\ Truthy(b.username) \/ Truthy(b.email)
    /\ \E i \in 1..Len(users) :
        /\ ~StrictEq(users[i].id, userId)
        /\ (StrictEq(users[i].username, b.username) \/ StrictEq(users[i].email, b.email))

\* Router "old": the handler of router.put('/:id')
UpdateUserOld(f, t, userId, b) ==
    LET r == readUsers(f)
        users == r.users
        index == FindIndexOld(users, userId)
        updatedUser == UpdatedUserOld(users[index], b, t)
    IN IF index = 0 THEN Response(404, << >>, r.file)
       ELSE IF DuplicateUserOld(users, userId, b) THEN Response(400, << >>, r.file)
       ELSE Response(200, <<updatedUser>>,
                     writeUsers([users EXCEPT ![index] = updatedUser]))

\* Router "old": router.delete('/:id')
DeleteUserOld(f, userId) ==
    LET r == readUsers(f)
        index == FindIndexOld(r.users, userId)
    IN IF index = 0
       THEN Response(404, << >>, r.file)
       ELSE Response(204, << >>, writeUsers(Splice(r.users, index)))

---------------------------------------------------------------------------
(* Handlers of router "num" *)

\* Number(v) of an id: a number is itself, a string is converted
NumberOf(v) == IF IsNumber(v) THEN v ELSE IF IsString(v) THEN ToNumber(v) ELSE NaN

\* Math.max(...users.map(u => u.id)) of a collection that is not empty
MaxId(users) ==
    LET ids == { NumberOf(users[i].id) : i \in 1..Len(users) }
    IN IF NaN \in ids THEN NaN
       ELSE Num(CHOOSE n \in { DigitsToNat(Tail(v)) : v \in ids } :
                    \A v \in ids : DigitsToNat(Tail(v)) <= n)

\* users.length > 0 ? Math.max(...users.map(u => u.id)) + 1 : 1
NextId(users) ==
    IF Len(users) = 0 THEN Num(1)
    ELSE IF MaxId(users) = NaN THEN NaN
    ELSE Num(DigitsToNat(Tail(MaxId(users))) + 1)

\* users.findIndex(u => u.id === parseInt(req.params.id)), 0 for -1
FindIndexNum(users, userId) ==
    IF \E i \in 1..Len(users) : StrictEq(users[i].id, ParseInt(userId))
    THEN CHOOSE i \in 1..Len(users) :
            /\ StrictEq(users[i].id, ParseInt(userId))
            /\ \A j \in 1..(i - 1) : ~StrictEq(users[j].id, ParseInt(userId))
    ELSE 0

\* Router "num": { id: ..., ...req.body, address: req.body.address || {} }
NewUserNum(users, b) ==
    [SpreadBody([EmptyBody EXCEPT !.id = NextId(users)], b) EXCEPT
        !.address = IF b.address.t = "object" THEN b.address ELSE EmptyAddress]

\* Router "num": updatedUser of router.put('/:id')
UpdatedUserNum(user, b) ==
    [SpreadBody(user, b) EXCEPT
        !.id = user.id,
        !.address = SpreadAddress(user.address, b.address)]

\* Router "num": router.get('/:id')
GetUserNum(f, userId) ==
    LET r == readUsers(f)
        index == FindIndexNum(r.users, userId)
    IN IF index = 0
       THEN Response(404, << >>, r.file)
       ELSE Response(200, <<r.users[index]>>, r.file)

\* Router "num": the handler of router.post('/'), which checks no duplicate
CreateUserNum(f, b) ==
    LET r == readUsers(f)
        newUser == NewUserNum(r.users, b)
    IN Response(201, <<newUser>>, writeUsers(Append(r.users, newUser)))

\* Router "num": the handler of router.put('/:id')
UpdateUserNum(f, userId, b) ==
    LET r == readUsers(f)
        users == r.users
        index == FindIndexNum(users, userId)
        updatedUser == UpdatedUserNum(users[index], b)
    IN IF index = 0 THEN Response(404, << >>, r.file)
       ELSE Response(200, <<updatedUser>>,
                     writeUsers([users EXCEPT ![index] = updatedUser]))

\* Router "num": router.delete('/:id')
DeleteUserNum(f, userId) ==
    LET r == readUsers(f)
        index == FindIndexNum(r.users, userId)
    IN IF index = 0
       THEN Response(404, << >>, r.file)
       ELSE Response(204, << >>, writeUsers(Splice(r.users, index)))

---------------------------------------------------------------------------
(* Search *)

\* Router "cur": what the callback of users.filter makes of one record:
\* "match", "miss", or "throw" when toLowerCase is called on a field that is
\* not there.  || and && stop at the first operand that decides.
SearchOutcome(user, searchTerm) ==
    LET has(v) == Includes(ToLowerCase(v), searchTerm)
        a == user.address
    IN CASE user.name = Undef -> "throw"
         [] has(user.name) -> "match"
         [] user.username = Undef -> "throw"
         [] has(user.username) -> "match"
         [] user.email = Undef -> "throw"
         [] has(user.email) -> "match"
         [] a.t # "object" -> "miss"
         [] Truthy(a.street) /\ has(a.street) -> "match"
         [] Truthy(a.city) /\ has(a.city) -> "match"
         [] Truthy(a.zipcode) /\ Includes(a.zipcode, searchTerm) -> "match"
         [] OTHER -> "miss"

\* The first router and router "num": user.name.toLowerCase().includes(
\* q.toLowerCase())
SearchOutcomeOld(user, searchTerm) ==
    CASE user.name = Undef -> "throw"
      [] Includes(ToLowerCase(user.name), searchTerm) -> "match"
      [] OTHER -> "miss"

\* users.filter(callback), given the outcome of the callback per record
SelectSeq2(users, outcome) ==
    LET F[i \in 0..Len(users)] ==
            IF i = 0 THEN << >>
            ELSE IF outcome[i] = "match" THEN Append(F[i - 1], users[i])
            ELSE F[i - 1]
    IN F[Len(users)]

\* Router "cur": router.get('/search'); an exception goes through
\* catchAsync to errorHandler, which answers 500
SearchUsers(f, q) ==
    LET r == readUsers(f)
        users == r.users
        outcome == [i \in 1..Len(users) |-> SearchOutcome(users[i], ToLowerCase(q))]
    IN IF ~Truthy(q) THEN Response(400, << >>, f)
       ELSE IF \E i \in 1..Len(users) : outcome[i] = "throw"
       THEN Response(errorHandler(PlainError("TypeError", "toLowerCase")).status,
                     << >>, r.file)
       ELSE Response(200, SelectSeq2(users, outcome), r.file)

\* The first router and router "num": router.get('/search')
SearchUsersOld(f, q) ==
    LET r == readUsers(f)
        users == r.users
        outcome == [i \in 1..Len(users) |-> SearchOutcomeOld(users[i], ToLowerCase(q))]
    IN IF ~Truthy(q) THEN Response(400, << >>, f)
       ELSE IF \E i \in 1..Len(users) : outcome[i] = "throw"
       THEN Response(errorHandler(PlainError("TypeError", "toLowerCase")).status,
                     << >>, r.file)
       ELSE Response(200, SelectSeq2(users, outcome), r.file)

---------------------------------------------------------------------------
(* List *)

\* String(prop) of an object
ObjectString ==
    <<"[","o","b","j","e","c","t"," ","O","b","j","e","c","t","]">>

\* String(prop) of Object, which every object inherits as its constructor
NativeCodeString ==
    <<"f","u","n","c","t","i","o","n"," ","O","b","j","e","c","t","(",")",
      " ","{"," ","[","n","a","t","i","v","e"," ","c","o","d","e","]"," ",
      "}">>

\* The keys an object inherits from Object.prototype that the model sends.
InheritedKeys == {"constructor"}

\* The keys of the objects that the handlers only pass through.
KeysOf(object) ==
    CASE object = DefaultGeo -> {"lat", "lng"}
      [] object = DefaultCompany -> {"name", "catchPhrase", "bs"}
      [] OTHER -> {}

\* A value the filter has walked to, with what typeof tells of it.
Prop(kind, val) == [kind |-> kind, val |-> val]
NoProp == Prop("missing", << >>)

\* k in prop, then prop = prop[k]
Step(prop, k) ==
    CASE prop.kind = "user" /\ k = "address" /\ prop.val.address.t = "object" ->
            Prop("address", prop.val.address)
      [] prop.kind = "user" /\ k \in UserFields \ {"address"} /\ prop.val[k] # Undef ->
            Prop(IF prop.val[k] \in Objects THEN "object" ELSE "string", prop.val[k])
      [] prop.kind = "address" /\ k \in {"street", "city", "zipcode", "geo"}
            /\ prop.val[k] # Undef ->
            Prop(IF prop.val[k] \in Objects THEN "object" ELSE "string", prop.val[k])
      [] prop.kind = "object" /\ k \in KeysOf(prop.val) -> Prop("string", << >>)
      [] k \in InheritedKeys -> Prop("function", << >>)
      [] OTHER -> NoProp

\* for (const k of keys): !prop || typeof prop !== 'object' || !(k in prop)
\* ends the walk
RECURSIVE Walk(_, _)
Walk(prop, keys) ==
    IF keys = << >> THEN prop
    ELSE IF prop.kind \notin {"user", "address", "object"} THEN NoProp
    ELSE LET next == Step(prop, Head(keys))
         IN IF next.kind = "missing" THEN NoProp ELSE Walk(next, Tail(keys))

\* String(prop)
StringOfProp(prop) ==
    CASE prop.kind \in {"user", "address", "object"} -> ObjectString
      [] prop.kind = "function" -> NativeCodeString
      [] OTHER -> String(prop.val)

\* QueryMatches with the two strings compared as they are
QueryMatchesCase(user, param) ==
    IF param.key = <<"q">> THEN TRUE
    ELSE LET prop == Walk([kind |-> "user", val |-> user], param.key)
         IN /\ prop.kind # "missing"
            /\ Includes(StringOfProp(prop), String(param.value))

\* The callback of Object.entries(req.query).every
QueryMatches(user, param) ==
    IF param.key = <<"q">> THEN TRUE
    ELSE LET prop == Walk([kind |-> "user", val |-> user], param.key)
         IN /\ prop.kind # "missing"
            /\ Includes(ToLowerCase(StringOfProp(prop)),
                        ToLowerCase(String(param.value)))

\* Router "cur": router.get('/'), the query given as its entries with each
\* key split at its dots
ListUsers(f, query) ==
    LET r == readUsers(f)
        Keep(user) == \A param \in query : QueryMatches(user, param)
    IN Response(200, IF query = {} THEN r.users ELSE SelectSeq(r.users, Keep), r.file)

\* Routers "old" and "num": router.get('/')
ListUsersOld(f, query) ==
    LET r == readUsers(f)
    IN Response(200, r.users, r.file)

---------------------------------------------------------------------------
(* The requests the model sends *)

Ann == <<"A","n","n">>
Ann2 == <<"A","n","n","2">>
Bob == <<"B","o","b">>
ann1 == <<"a","n","n","1">>
bob2 == <<"b","o","b","2">>
annMail == <<"a","n","n","@","x",".","c","o","m">>
bobMail == <<"b","o","b","@","x",".","c","o","m">>
MainSt == <<"1"," ","M","a","i","n">>
Oslo == <<"O","s","l","o">>
Rome == <<"R","o","m","e">>
Zip == <<"N","0","1","5","0">>
Phone == <<"5","5","5">>

FullAddress == [EmptyAddress EXCEPT !.street = MainSt, !.city = Oslo, !.zipcode = Zip]
CityOnly == [EmptyAddress EXCEPT !.city = Rome]

AnnBody == [EmptyBody EXCEPT !.name = Ann, !.username = ann1, !.email = annMail]
BobBody == [EmptyBody EXCEPT !.name = Bob, !.username = bob2, !.email = bobMail,
                             !.address = FullAddress, !.phone = Phone]

\* The bodies of the POST requests: the spec's scenario, a second user with
\* an address, a body that shares its username with the first and its email
\* with the second, the first with blanks around its values, and the
\* invalid body of test-api.js.
PostBodies ==
    { AnnBody,
      BobBody,
      [AnnBody EXCEPT !.email = bobMail],
      [AnnBody EXCEPT !.name = <<" ">> \o Ann, !.username = ann1 \o <<" ">>],
      [EmptyBody EXCEPT !.username = <<"a">>] }

\* The bodies of the PUT requests: the name alone (the spec's scenario), the
\* name and the city (test-api.js), all of the first user with a new name,
\* the same with an id, all of the second user, the second user's username
\* alone, and an email that is none.
PutBodies ==
    { [EmptyBody EXCEPT !.name = Ann2],
      [EmptyBody EXCEPT !.name = Ann2, !.address = CityOnly],
      [AnnBody EXCEPT !.name = Ann2],
      [AnnBody EXCEPT !.name = Ann2, !.id = <<"9">>],
      [EmptyBody EXCEPT !.name = Bob, !.username = bob2, !.email = bobMail],
      [EmptyBody EXCEPT !.username = bob2],
      [EmptyBody EXCEPT !.email = <<"b","a","d">>] }

\* The ids of the request paths: every id a create can issue, and one that
\* no create issues.
PathIds == { NewId(t) : t \in 1..MaxClock } \cup { <<"n","o","n","e">> }

RECURSIVE Repeat(_, _)
\* a string of n characters c
Repeat(c, n) == IF n = 0 THEN << >> ELSE <<c>> \o Repeat(c, n - 1)

\* Bodies that only the validation is asked about: a username with a period
\* and a hyphen, usernames of 31, 30 and 2 characters, a username with a
\* blank inside, a name of blanks, and an email without a top-level domain.
ValidationProbes ==
    { [AnnBody EXCEPT !.username = <<"a",".","b","-","c">>],
      [AnnBody EXCEPT !.username = Repeat("a", MaxUsernameLen + 1)],
      [AnnBody EXCEPT !.username = Repeat("a", MaxUsernameLen)],
      [AnnBody EXCEPT !.username = <<"a","b">>],
      [AnnBody EXCEPT !.username = <<"a"," ","b">>],
      [AnnBody EXCEPT !.name = <<" "," ">>],
      [AnnBody EXCEPT !.email = <<"a","n","n","@","x">>] }

\* The errors errorHandler is handed: one of each class of utils/errors.js,
\* an AppError of a status of its own, a TypeError, the two token errors and
\* a duplicate key.
Errors ==
    { ValidationError(errorDetails(<<[field |-> "name", message |-> "Name is required"]>>)),
      NotFoundError("User"),
      NotFoundError(""),
      ConflictError("Resource already exists"),
      UnauthorizedError("Not authorized"),
      ForbiddenError("Forbidden"),
      AppError("Unavailable", 503),
      PlainError("TypeError", "toLowerCase"),
      PlainError("Error", ""),
      PlainError("JsonWebTokenError", "jwt malformed"),
      PlainError("TokenExpiredError", "jwt expired"),
      DuplicateKeyError("email") }

\* The q of the search requests: none, the empty one, one in capitals that
\* the name, username and email of the first user hold in other case, the
\* zipcode of the second user in small letters, and one that nothing holds.
SearchTerms ==
    { Undef, << >>, <<"A","N","N">>, <<"n","0","1">>, <<"z","z">> }

\* req.query of GET /users: no parameter, a field, a nested field in another
\* case, q alone, a key no record has, a field two levels down, two
\* parameters, an inherited key.
Param(key, value) == [key |-> key, value |-> value]
Queries ==
    { {},
      { Param(<<"name">>, <<"a","n","n">>) },
      { Param(<<"address", "city">>, <<"O","S","L","O">>) },
      { Param(<<"q">>, <<"z","z">>) },
      { Param(<<"nickname">>, <<"a">>) },
      { Param(<<"address", "geo", "lat">>, << >>) },
      { Param(<<"name">>, <<"n","n">>), Param(<<"address", "city">>, <<"r","o","m","e">>) },
      { Param(<<"constructor">>, <<"n","a","t","i","v","e">>) } }

---------------------------------------------------------------------------
(* The router that serves the requests *)

\* Bodies of PUT /users/:id that the validators are asked about.
UpdateProbes ==
    { [EmptyBody EXCEPT !.username = <<"a",".","b","-","c">>],
      [EmptyBody EXCEPT !.username = Repeat("a", MaxUsernameLen + 1)],
      [EmptyBody EXCEPT !.username = <<"a","b">>],
      [EmptyBody EXCEPT !.name = <<" "," ">>],
      [EmptyBody EXCEPT !.email = <<"a","n","n","@","x">>],
      [EmptyBody EXCEPT !.phone = Phone] }

\* What the validation middleware makes of each body the model sends.
CreateValidated == [b \in PostBodies \cup ValidationProbes |-> createUserValidation(b)]
UpdateValidated == [b \in PutBodies \cup UpdateProbes |-> updateUserValidation(b)]
CreateValidatedOld ==
    [b \in PostBodies \cup ValidationProbes |-> createUserValidationOld(b)]
UpdateValidatedOld == [b \in PutBodies \cup UpdateProbes |-> updateUserValidationOld(b)]
ValidatedNum ==
    [b \in PostBodies \cup PutBodies \cup ValidationProbes \cup UpdateProbes |->
        userValidationRules(b)]

Validation(method, b) ==
    CASE variant = "cur" /\ method = "POST" -> CreateValidated[b]
      [] variant = "cur" /\ method = "PUT" -> UpdateValidated[b]
      [] variant = "old" /\ method = "POST" -> CreateValidatedOld[b]
      [] variant = "old" /\ method = "PUT" -> UpdateValidatedOld[b]
      [] variant = "num" -> ValidatedNum[b]

\* validateRequest: a body with errors is answered 400 and the handler does
\* not run; otherwise the handler runs on the sanitized body.
Passes(method, reqBody) == Validation(method, reqBody).errors = << >>

\* The answer to a body that does not pass: errorHandler's to the
\* ValidationError in router "cur", validateRequest's own in the first
\* router, the handler's in router "num".
Refuse(errors, f) ==
    CASE variant = "cur" ->
            LET e == errorHandler(ValidationError(errorDetails(errors)))
            IN Response(e.status, e.body.errors, f)
      [] variant = "old" -> Response(400, errorParams(errors), f)
      [] variant = "num" -> Response(400, errorsArray(errors), f)

\* GET /users/:id
GetById(f, userId) ==
    CASE variant = "cur" -> GetUser(f, userId)
      [] variant = "old" -> GetUserOld(f, userId)
      [] variant = "num" -> GetUserNum(f, userId)

\* POST /users
Create(f, t, reqBody) ==
    LET b == Validation("POST", reqBody).body
    IN IF ~Passes("POST", reqBody) THEN Refuse(Validation("POST", reqBody).errors, f)
       ELSE CASE variant = "cur" -> CreateUser(f, t, b)
              [] variant = "old" -> CreateUserOld(f, t, b)
              [] variant = "num" -> CreateUserNum(f, b)

\* PUT /users/:id
Update(f, t, userId, reqBody) ==
    LET b == Validation("PUT", reqBody).body
    IN IF ~Passes("PUT", reqBody) THEN Refuse(Validation("PUT", reqBody).errors, f)
       ELSE CASE variant = "cur" -> UpdateUser(f, userId, b)
              [] variant = "old" -> UpdateUserOld(f, t, userId, b)
              [] variant = "num" -> UpdateUserNum(f, userId, b)

\* DELETE /users/:id
Remove(f, userId) ==
    CASE variant = "cur" -> DeleteUser(f, userId)
      [] variant = "old" -> DeleteUserOld(f, userId)
      [] variant = "num" -> DeleteUserNum(f, userId)

\* GET /users/search
SearchBy(f, q) ==
    IF variant = "cur" THEN SearchUsers(f, q) ELSE SearchUsersOld(f, q)

ListBy(f, query) ==
    IF variant = "cur" THEN ListUsers(f, query) ELSE ListUsersOld(f, query)

\* The status that reports a duplicate username or email.
ConflictStatus == IF variant = "cur" THEN 409 ELSE 400

---------------------------------------------------------------------------
(* The state machine *)

NoResponse == [op |-> "none", status |-> 0, body |-> << >>]

Answer(op, r) == [op |-> op, status |-> r.status, body |-> r.body]

InitFiles == { AbsentFile, BlankFile, GarbageFile, writeUsers(<< >>) }

InitRouter(v) ==
    /\ file \in InitFiles
    /\ now = 1
    /\ res = NoResponse
    /\ created = {}
    /\ deleted = {}
    /\ variant = v
    /\ pending = {}

\* The server of app.js: router "cur".
Init == InitRouter("cur")

\* The clock advances between two requests, or it does not.
Tick ==
    /\ now < MaxClock
    /\ now' = now + 1
    /\ UNCHANGED <<file, res, created, deleted, variant, pending>>

Get ==
    \E id \in PathIds :
        LET r == GetById(file, id)
        IN /\ file' = r.file
           /\ res' = Answer("GET", r)
           /\ UNCHANGED <<now, created, deleted, variant, pending>>

Post ==
    /\ Len(Stored(file)) < MaxUsers
    /\ \E b \in PostBodies :
        LET r == Create(file, now, b)
        IN /\ file' = r.file
           /\ res' = Answer("POST", r)
           /\ created' = IF r.status = 201 THEN created \cup {r.body[1].id} ELSE created
           /\ deleted' = IF r.status = 201 THEN deleted \ {String(r.body[1].id)} ELSE deleted
           /\ UNCHANGED <<now, variant, pending>>

Put ==
    \E id \in PathIds, b \in PutBodies :
        LET r == Update(file, now, id, b)
        IN /\ file' = r.file
           /\ res' = Answer("PUT", r)
           /\ UNCHANGED <<now, created, deleted, variant, pending>>

Delete ==
    \E id \in PathIds :
        LET r == Remove(file, id)
        IN /\ file' = r.file
           /\ res' = Answer("DELETE", r)
           /\ deleted' = IF r.status = 204 THEN deleted \cup {id} ELSE deleted
           /\ UNCHANGED <<now, created, variant, pending>>

Search ==
    \E q \in SearchTerms :
        LET r == SearchBy(file, q)
        IN /\ file' = r.file
           /\ res' = Answer("SEARCH", r)
           /\ UNCHANGED <<now, created, deleted, variant, pending>>

Next == Tick \/ Get \/ Post \/ Put \/ Delete

Spec == Init /\ [][Next]_vars

\* The mounted router with its search endpoint.
SpecSearch == Init /\ [][Next \/ Search]_vars

\* GET /users with or without a query
List ==
    \E query \in Queries :
        LET r == ListBy(file, query)
        IN /\ file' = r.file
           /\ res' = [op |-> "LIST", status |-> r.status, body |-> r.body,
                      query |-> query]
           /\ UNCHANGED <<now, created, deleted, variant, pending>>

\* The mounted router with its list endpoint.
SpecList == Init /\ [][Next \/ List]_vars

\* The older router alone.
SpecOld == InitRouter("old") /\ [][Next]_vars

\* A write request that has run up to its await of writeUsers: it has read
\* the file, decided its answer and built the collection it will write.
Reading(op, id, r) ==
    [op |-> op, id |-> id, status |-> r.status, body |-> r.body, file |-> r.file,
     snapshot |-> Stored(file)]

\* The answer of the request leaves the file to be written.
Writes(r) == r.status \in {200, 201, 204}

\* The requests that interleave: the create and the update of test-api.js,
\* sent any number of times, and the update and the delete of the first id.
ConcurrentPostBodies == { AnnBody }
ConcurrentPutBodies == { [EmptyBody EXCEPT !.name = Ann2, !.address = CityOnly] }
ConcurrentIds == { NewId(1) }

\* POST /users up to its write; a request that writes nothing is answered
\* at once.
BeginPost ==
    /\ Len(Stored(file)) < MaxUsers
    /\ \E b \in ConcurrentPostBodies :
        LET r == Create(file, now, b)
        IN IF Writes(r)
           THEN /\ Cardinality(pending) < MaxPending
                /\ pending' = pending \cup {Reading("POST", Undef, r)}
                /\ file' = readUsers(file).file
                /\ UNCHANGED <<now, res, created, deleted, variant>>
           ELSE /\ file' = r.file
                /\ res' = Answer("POST", r)
                /\ UNCHANGED <<now, created, deleted, variant, pending>>

\* PUT /users/:id up to its write
BeginPut ==
    \E id \in ConcurrentIds, b \in ConcurrentPutBodies :
        LET r == Update(file, now, id, b)
        IN IF Writes(r)
           THEN /\ Cardinality(pending) < MaxPending
                /\ pending' = pending \cup {Reading("PUT", id, r)}
                /\ file' = readUsers(file).file
                /\ UNCHANGED <<now, res, created, deleted, variant>>
           ELSE /\ file' = r.file
                /\ res' = Answer("PUT", r)
                /\ UNCHANGED <<now, created, deleted, variant, pending>>

\* DELETE /users/:id up to its write
BeginDelete ==
    \E id \in ConcurrentIds :
        LET r == Remove(file, id)
        IN IF Writes(r)
           THEN /\ Cardinality(pending) < MaxPending
                /\ pending' = pending \cup {Reading("DELETE", id, r)}
                /\ file' = readUsers(file).file
                /\ UNCHANGED <<now, res, created, deleted, variant>>
           ELSE /\ file' = r.file
                /\ res' = Answer("DELETE", r)
                /\ UNCHANGED <<now, created, deleted, variant, pending>>

\* Commit with the record of a create appended to what the file holds at
\* the time of the write
CommitMerged(p, f) ==
    IF p.op = "POST" THEN writeUsers(Append(Stored(f), p.body[1])) ELSE p.file

\* fs.writeFile(DATA_FILE, JSON.stringify(users, null, 2)): the file holds
\* what the request serialized, whatever it held before
Commit(p, f) == p.file

\* The write of a pending request completes and the request is answered.
Finish ==
    \E p \in pending :
        /\ file' = Commit(p, file)
        /\ res' = Answer(p.op, p)
        /\ pending' = pending \ {p}
        /\ created' = IF p.status = 201 THEN created \cup {p.body[1].id} ELSE created
        /\ deleted' = CASE p.status = 201 -> deleted \ {String(p.body[1].id)}
                         [] p.status = 204 -> deleted \cup {p.id}
                         [] OTHER -> deleted
        /\ UNCHANGED <<now, variant>>

\* The server of app.js with write requests whose handlers interleave at
\* their awaits.
SpecConcurrent ==
    Init /\ [][Tick \/ BeginPost \/ BeginPut \/ BeginDelete \/ Finish]_vars

\* What a reader finds in the file while fs.writeFile is at work on it: the
\* file is opened with flag 'w', which empties it, and filled by one or
\* more writes, so that it is empty or holds the beginning of the JSON text.
TornFiles == { BlankFile, GarbageFile }

\* The fs.writeFile of a write request in flight has opened the file and
\* not yet written all of it.
Tear ==
    /\ pending # {}
    /\ \E f \in TornFiles : file' = f
    /\ UNCHANGED <<now, res, created, deleted, variant, pending>>

\* GET /users/:id up to the await of the fs.writeFile in the catch block of
\* readUsers; when readUsers has nothing to write the request is answered
\* at once.
BeginGet ==
    \E id \in ConcurrentIds :
        IF file.state \in {"absent", "garbage"}
        THEN /\ Cardinality(pending) < MaxPending
             /\ pending' = pending \cup
                    {[op |-> "GET", id |-> id, status |-> 404, body |-> << >>,
                      file |-> writeUsers(<< >>), snapshot |-> << >>]}
             /\ UNCHANGED <<file, now, res, created, deleted, variant>>
        ELSE /\ res' = Answer("GET", GetById(file, id))
             /\ UNCHANGED <<file, now, created, deleted, variant, pending>>

\* The server of app.js with requests that interleave at their awaits and
\* writes of the file that readers can see half done.
SpecTorn ==
    Init /\ [][Tick \/ BeginPost \/ BeginPut \/ BeginDelete \/ BeginGet
                  \/ Tear \/ Finish]_vars

\* The codes fs.readFile rejects with when the file is there and cannot be
\* read.
ReadErrorCodes == {"EACCES", "EISDIR"}

\* The Error fs.readFile rejects with
ReadError(code) == PlainError("Error", code)

\* readUsersCatch with every error taken for ENOENT
readUsersCatchAny(code, f) ==
    [thrown |-> FALSE, file |-> writeUsers(<< >>)]

\* The catch block of readUsers on an error of fs.readFile: ENOENT makes it
\* write [] and return [], any other code is thrown again
readUsersCatch(code, f) ==
    IF code = "ENOENT" THEN [thrown |-> FALSE, file |-> writeUsers(<< >>)]
    ELSE [thrown |-> TRUE, file |-> f]

\* Router "cur": a handler whose readUsers() throws.  The catch blocks of
\* router.post('/') and router.put('/:id') answer 500; the other handlers
\* have none, and catchAsync hands the error to errorHandler.
Unreadable(op, err, f) ==
    IF op \in {"POST", "PUT"} THEN Response(500, << >>, f)
    ELSE Response(errorHandler(err).status, << >>, f)

\* A request of router "cur" that gets as far as readUsers() while
\* fs.readFile rejects; the code of the error is kept next to the response
ReadFails ==
    \E code \in ReadErrorCodes, op \in {"GET", "DELETE", "POST", "PUT"},
       id \in PathIds, b \in {AnnBody} :
        LET caught == readUsersCatch(code, file)
            r == CASE caught.thrown -> Unreadable(op, ReadError(code), caught.file)
                   [] op = "GET" -> GetUser(caught.file, id)
                   [] op = "DELETE" -> DeleteUser(caught.file, id)
                   [] op = "POST" -> CreateUser(caught.file, now, b)
                   [] OTHER -> UpdateUser(caught.file, id, b)
        IN /\ file' = r.file
           /\ res' = [op |-> op, status |-> r.status, body |-> r.body,
                      readError |-> code]
           /\ UNCHANGED <<now, created, deleted, variant, pending>>

\* The mounted router on a file that at times cannot be read.
SpecStorage == Init /\ [][Next \/ ReadFails]_vars

\* app.use(errorHandler): a middleware hands an error to errorHandler; the
\* error is kept next to the response
HandleError ==
    \E err \in Errors :
        LET e == errorHandler(err)
        IN /\ res' = [op |-> "ERROR", status |-> e.status, body |-> e.body.errors,
                      err |-> err, json |-> e.body]
           /\ UNCHANGED <<file, now, created, deleted, variant, pending>>

\* The server of app.js with middleware that hands errors to errorHandler.
SpecErrors == Init /\ [][Next \/ HandleError]_vars

\* The router with numeric ids alone.
SpecNum == InitRouter("num") /\ [][Next]_vars

\* Either of the two routers that refuse a duplicate.
SpecRouters == (InitRouter("cur") \/ InitRouter("old")) /\ [][Next]_vars

\* A users.json holding a record of the kind the README shows, whose id is the
\* number 1 and not a string, in the shape the router v stores.
SeededUser(v) ==
    IF v = "old" THEN [NewUserOld(1, AnnBody) EXCEPT !.id = Num(1)]
    ELSE [NewUser(1, AnnBody) EXCEPT !.id = Num(1)]

SeededFile(v) == writeUsers(<<SeededUser(v)>>)

InitSeeded(v) ==
    /\ file \in InitFiles \cup { SeededFile(v) }
    /\ now = 1
    /\ res = NoResponse
    /\ created = {}
    /\ deleted = {}
    /\ variant = v
    /\ pending = {}

SpecSeeded == (InitSeeded("cur") \/ InitSeeded("old")) /\ [][Next]_vars

SpecSeededCur == InitSeeded("cur") /\ [][Next]_vars

---------------------------------------------------------------------------
(* Properties *)

\* the position of the record a PUT or DELETE on userId works on, 0 if none
TargetIndex(f, userId) ==
    CASE variant = "cur" -> FindIndex(Stored(f), userId)
      [] variant = "old" -> FindIndexOld(Stored(f), userId)
      [] variant = "num" -> FindIndexNum(Stored(f), userId)

\* C1: after any sequence of sequentially handled create, update and delete
\* requests no two records of the stored collection have the same username
\* and no two have the same email (a missing username or email counted as a
\* value of its own).
C1_UniqueUsernameAndEmail ==
    LET users == Stored(file)
    IN \A i, j \in 1..Len(users) :
        i # j => /\ users[i].username # users[j].username
                 /\ users[i].email # users[j].email

\* C1 witness: two records are stored after creates, a delete and an update.
C1_Witness ==
    /\ Len(Stored(file)) = 2
    /\ deleted # {}
    /\ res.op = "PUT" /\ res.status = 200

\* C2: every create that succeeds returns a record whose id is not empty
\* and differs from the id of every record created before it, stored or not.
C2_CreateReturnsFreshId ==
    \A b \in PostBodies :
        LET r == Create(file, now, b)
        IN r.status = 201 =>
            /\ r.body[1].id # << >>
            /\ r.body[1].id # Undef
            /\ r.body[1].id \notin created

\* C3: a successful PUT leaves every top-level field its body does not
\* supply as it was, in the response and in the stored record.
C3_UpdateKeepsUnsuppliedFields ==
    \A id \in PathIds, b \in PutBodies :
        LET index == TargetIndex(file, id)
            r == Update(file, now, id, b)
        IN r.status = 200 =>
            \A k \in UserFields :
                ~Supplies(b, k) =>
                    /\ r.body[1][k] = Stored(file)[index][k]
                    /\ Stored(r.file)[index][k] = Stored(file)[index][k]

\* C4: a successful PUT whose body address holds only city leaves the
\* street and the zipcode of the record's address as they were.
C4_UpdateMergesAddress ==
    \A id \in PathIds, b \in PutBodies :
        LET index == TargetIndex(file, id)
            r == Update(file, now, id, b)
            before == Stored(file)[index].address
        IN (/\ r.status = 200
            /\ b.address.t = "object"
            /\ b.address.city # Undef
            /\ b.address.street = Undef
            /\ b.address.zipcode = Undef) =>
                /\ r.body[1].address.street = before.street
                /\ r.body[1].address.zipcode = before.zipcode
                /\ Stored(r.file)[index].address.street = before.street
                /\ Stored(r.file)[index].address.zipcode = before.zipcode

\* C5: a create whose body passes validation and carries the username or
\* the email of a stored record, as sent or as the sanitizers leave it, is
\* refused with the conflict status (409, 400 in the older router) and
\* leaves the stored collection as it was; a
\* create whose body passes validation and whose username and email no
\* stored record has is answered 201.
C5_DuplicateCreateRefused ==
    \A b \in PostBodies :
        LET users == Stored(file)
            r == Create(file, now, b)
            sent == Validation("POST", b).body
        IN Passes("POST", b) =>
            /\ (\E i \in 1..Len(users) :
                    \/ users[i].username \in {b.username, sent.username}
                    \/ users[i].email \in {b.email, sent.email})
                => (r.status = ConflictStatus /\ Stored(r.file) = users)
            /\ (\A i \in 1..Len(users) :
                    users[i].username # sent.username /\ users[i].email # sent.email)
                => r.status = 201

\* C5 witness: a create has been refused with 409 while a record was stored.
C5_Witness ==
    /\ res.op = "POST" /\ res.status = 409
    /\ Len(Stored(file)) >= 1

\* C6: once DELETE has answered 204 for an id, and until a create returns
\* that id again, GET and DELETE for that id answer 404.
C6_DeletedStaysGone ==
    \A id \in deleted :
        /\ GetById(file, id).status = 404
        /\ Remove(file, id).status = 404

\* C7: right after a successful create, GET with the returned id answers
\* 200 with the record the create returned.
C7_GetReturnsCreated ==
    (res.op = "POST" /\ res.status = 201) =>
        LET g == GetById(file, String(res.body[1].id))
        IN g.status = 200 /\ g.body = res.body

\* C8: a successful PUT leaves the id of the record as it was, whatever the
\* body holds.
C8_UpdateKeepsId ==
    \A id \in PathIds, b \in PutBodies :
        LET index == TargetIndex(file, id)
            r == Update(file, now, id, b)
        IN r.status = 200 =>
            /\ r.body[1].id = Stored(file)[index].id
            /\ Stored(r.file)[index].id = Stored(file)[index].id

\* C9: a PUT on a stored record whose body passes validation is refused
\* with 409 and changes nothing when the body's username or email is that of
\* another stored record, and is not refused with 409 when the body repeats
\* the username and the email of the record itself.
C9_UpdateConflict ==
    \A id \in PathIds, b \in PutBodies :
        LET users == Stored(file)
            index == FindIndex(users, id)
            r == Update(file, now, id, b)
        IN (Passes("PUT", b) /\ index # 0) =>
            /\ (\E i \in 1..Len(users) :
                    /\ i # index
                    /\ \/ (Supplies(b, "username") /\ users[i].username = b.username)
                       \/ (Supplies(b, "email") /\ users[i].email = b.email))
                => (r.status = 409 /\ r.file = file)
            /\ (/\ Supplies(b, "username") /\ b.username = users[index].username
                /\ Supplies(b, "email") /\ b.email = users[index].email)
                => r.status # 409

\* C9 witness: a PUT has been refused with 409 while two records are stored,
\* and one of the bodies repeats the username and email of a stored record.
C9_Witness ==
    /\ res.op = "PUT" /\ res.status = 409
    /\ Len(Stored(file)) = 2
    /\ \E id \in PathIds, b \in PutBodies :
        LET index == FindIndex(Stored(file), id)
        IN /\ index # 0
           /\ b.username = Stored(file)[index].username
           /\ b.email = Stored(file)[index].email

\* C10: a PUT whose id matches no stored record leaves the stored
\* collection as it was and is answered 404 (400 when its body does not pass
\* validation, which is checked first).
C10_UpdateNotFound ==
    \A id \in PathIds, b \in PutBodies :
        LET r == Update(file, now, id, b)
        IN FindIndex(Stored(file), id) = 0 =>
            /\ r.status = IF Passes("PUT", b) THEN 404 ELSE 400
            /\ Stored(r.file) = Stored(file)

\* C10 witness: a PUT has been answered 404 while records are stored.
C10_Witness ==
    /\ res.op = "PUT" /\ res.status = 404
    /\ Len(Stored(file)) >= 1

\* C11: GET /users/search with a q that is not empty answers 200 with
\* exactly the stored records, in stored order, one of whose name, username,
\* email, address.street, address.city and address.zipcode holds q when both
\* are compared without regard to case; with no q or an empty q it answers
\* 400.
C11_SearchMatches ==
    \A q \in SearchTerms :
        LET r == SearchBy(file, q)
            Holds(v) == v # Undef /\ Includes(ToLowerCase(v), ToLowerCase(q))
            Matches(u) ==
                \/ Holds(u.name) \/ Holds(u.username) \/ Holds(u.email)
                \/ /\ u.address.t = "object"
                   /\ Holds(u.address.street) \/ Holds(u.address.city)
                        \/ Holds(u.address.zipcode)
        IN IF ~Truthy(q) THEN r.status = 400
           ELSE r.status = 200 /\ r.body = SelectSeq(Stored(file), Matches)

\* C12: whatever the stored collection, GET /users/search with a q that is
\* not empty answers 200 (with the array of the matching records, which may
\* be empty) and never an error.
C12_SearchNeverFails ==
    \A q \in SearchTerms :
        Truthy(q) => SearchBy(file, q).status = 200

\* C13: POST /users lets a body pass its validation exactly when, blanks at
\* both ends aside, the name is not empty, the username has 3 to 30
\* characters, all of them letters, digits, underscore, period or hyphen, and
\* the email is a valid address; a body that does not pass is answered 400 and
\* nothing is stored.
C13_CreateValidationRule ==
    \A b \in PostBodies \cup ValidationProbes :
        LET r == Create(file, now, b)
            name == Trim(ToStr(b.name))
            username == Trim(ToStr(b.username))
            email == Trim(ToStr(b.email))
            valid ==
                /\ name # << >>
                /\ Len(username) >= MinUsernameLen
                /\ Len(username) <= MaxUsernameLen
                /\ AllIn(username, Letter \cup Digit \cup {"_", ".", "-"})
                /\ IsEmail(email)
        IN /\ valid <=> Passes("POST", b)
           /\ ~valid => (r.status = 400 /\ r.file = file)

\* the field an entry of an error list names
FieldOf(e) == IF "field" \in DOMAIN e THEN e.field ELSE Undef

\* C14: the 400 that answers a create or an update whose body does not pass
\* validation carries a list with one entry per violated rule, and each
\* entry has the name of the request field as its field and the message of
\* the rule as its message.
C14_ValidationErrorList ==
    /\ \A b \in PostBodies \cup ValidationProbes :
        LET r == Create(file, now, b)
            errors == Validation("POST", b).errors
        IN ~Passes("POST", b) =>
            /\ r.status = 400
            /\ Len(r.body) = Len(errors)
            /\ \A i \in 1..Len(errors) :
                /\ FieldOf(r.body[i]) = errors[i].field
                /\ r.body[i].message = errors[i].message
    /\ \A id \in PathIds, b \in PutBodies :
        LET r == Update(file, now, id, b)
            errors == Validation("PUT", b).errors
        IN ~Passes("PUT", b) =>
            /\ r.status = 400
            /\ Len(r.body) = Len(errors)
            /\ \A i \in 1..Len(errors) :
                /\ FieldOf(r.body[i]) = errors[i].field
                /\ r.body[i].message = errors[i].message

\* C15: errorHandler answers an error of the classes of utils/errors.js
\* (ValidationError 400, NotFoundError 404, ConflictError 409, and the
\* others) with the error's own status code, and answers 500 only to an
\* error that is of none of these classes.
C15_ErrorStatus ==
    res.op = "ERROR" =>
        /\ res.err.isOperational => res.status = res.err.statusCode
        /\ res.status = 500 => ~res.err.isOperational

\* C16: when the write of a request completes, the request is answered with
\* its success status and the stored collection is the collection the request
\* read with its own change applied, so that whatever another request wrote
\* in between is lost.
C16_LostUpdate ==
    [][\A p \in pending :
         (pending' = pending \ {p}) =>
            LET index == FindIndex(p.snapshot, p.id)
            IN /\ res'.status = p.status
               /\ p.status \in {200, 201, 204}
               /\ Stored(file') =
                     CASE p.op = "POST" -> Append(p.snapshot, p.body[1])
                       [] p.op = "PUT" -> [p.snapshot EXCEPT ![index] = p.body[1]]
                       [] OTHER -> Splice(p.snapshot, index)]_vars

\* Two creates were answered 201 with different ids, nothing was deleted and
\* one record is stored.
C16_Witness ==
    /\ Cardinality(created) = 2
    /\ deleted = {}
    /\ pending = {}
    /\ Len(Stored(file)) = 1

\* C17: a GET /users/:id that finds the backing file absent, empty or not
\* parseable as JSON reads the empty collection (it answers 404) and leaves
\* the file holding the JSON array [].
C17_ReadUsersInitializes ==
    [][(res' # res /\ res'.op = "GET"
          /\ file.state \in {"absent", "blank", "garbage"})
       => (res'.status = 404 /\ file' = writeUsers(<< >>))]_vars

\* C17, amended: a GET /users/:id that finds the backing file absent or not
\* parseable as JSON reads the empty collection and leaves the file holding
\* the JSON array []; one that finds the file empty or blank reads the empty
\* collection and leaves the file as it is.
C17_ReadUsersInitializesUnlessBlank ==
    [][(res' # res /\ res'.op = "GET")
       => /\ file.state \in {"absent", "garbage"}
               => (res'.status = 404 /\ file' = writeUsers(<< >>))
          /\ file.state = "blank"
               => (res'.status = 404 /\ file' = file)]_vars

\* A GET has been answered and the file is still blank.
C17_Witness == res.op = "GET" /\ file = BlankFile

\* The dotted names of the properties of a stored record, own or inherited,
\* at any depth, each with the string its value converts to.
Named(path, string) == [path |-> path, string |-> string]
PropertiesOf(user) ==
    LET strings == {k \in {"id", "name", "username", "email", "phone", "website"} :
                        user[k] # Undef /\ user[k] \notin Objects}
        parts == {k \in {"street", "city", "zipcode"} : user.address[k] # Undef}
        geo == IF user.address.geo = Undef THEN {} ELSE KeysOf(user.address.geo)
        company == IF user.company = Undef THEN {} ELSE KeysOf(user.company)
    IN { Named(<<k>>, String(user[k])) : k \in strings }
         \cup { Named(<<"address">>, ObjectString) }
         \cup { Named(<<"address", k>>, user.address[k]) : k \in parts }
         \cup (IF user.address.geo = Undef THEN {}
               ELSE { Named(<<"address", "geo">>, ObjectString),
                      Named(<<"address", "geo", "constructor">>, NativeCodeString) })
         \cup { Named(<<"address", "geo", k>>, << >>) : k \in geo }
         \cup (IF user.company = Undef THEN {}
               ELSE { Named(<<"company">>, ObjectString),
                      Named(<<"company", "constructor">>, NativeCodeString) })
         \cup { Named(<<"company", k>>, << >>) : k \in company }
         \cup { Named(<<"constructor">>, NativeCodeString),
                Named(<<"address", "constructor">>, NativeCodeString) }

\* The properties that are fields of the record at the top level or one
\* level down.
FieldsOf(user) ==
    { p \in PropertiesOf(user) : Len(p.path) <= 2 /\ p.path[Len(p.path)] # "constructor" }

\* The value of the parameter occurs in the string, whatever the case.
Contains(string, value) ==
    \E i \in 0..(Len(string) - Len(value)) :
        \A j \in 1..Len(value) : LowerOf(string[i + j]) = LowerOf(value[j])

Elements(users) == { users[i] : i \in 1..Len(users) }

\* The records of the list, in their order, that a predicate selects.
RECURSIVE Selected(_, _)
Selected(users, keep) ==
    IF users = << >> THEN << >>
    ELSE (IF Head(users) \in keep THEN <<Head(users)>> ELSE << >>)
            \o Selected(Tail(users), keep)

\* C18: GET /users without query parameters answers the whole stored
\* collection in stored order; with query parameters it answers exactly the
\* records in which every parameter other than q names an existing field at
\* the top level or one level down whose value contains the value of the
\* parameter, whatever the case.
C18_ListFilters ==
    res.op = "LIST" =>
        /\ res.status = 200
        /\ res.body = Selected(Stored(file),
              { u \in Elements(Stored(file)) :
                  \A param \in res.query :
                      \/ param.key = <<"q">>
                      \/ \E p \in FieldsOf(u) :
                            p.path = param.key /\ Contains(p.string, param.value) })

\* C18, amended: as C18, for every parameter other than q that names a
\* property, own or inherited, at any depth of the record.
C18_ListFiltersAnyDepth ==
    res.op = "LIST" =>
        /\ res.status = 200
        /\ res.body = Selected(Stored(file),
              { u \in Elements(Stored(file)) :
                  \A param \in res.query :
                      \/ param.key = <<"q">>
                      \/ \E p \in PropertiesOf(u) :
                            p.path = param.key /\ Contains(p.string, param.value) })

\* A list with a query has answered some of the stored records and not all.
C18_Witness ==
    /\ res.op = "LIST"
    /\ res.query # {}
    /\ res.body # << >>
    /\ Len(res.body) < Len(Stored(file))

\* C19: every stored record has a non-empty name, a username of at least
\* three characters from the allowed set and a syntactically valid email.
C19_StoredRecordsValid ==
    \A i \in 1..Len(Stored(file)) :
        LET user == Stored(file)[i]
        IN /\ user.name # Undef
           /\ user.name # << >>
           /\ user.username # Undef
           /\ Len(user.username) >= MinUsernameLen
           /\ AllIn(user.username, Letter \cup Digit \cup {"_", ".", "-"})
           /\ user.email # Undef
           /\ IsEmail(user.email)

\* The list without its i-th record.
Without(users, i) == [j \in 1..(Len(users) - 1) |-> IF j < i THEN users[j] ELSE users[j + 1]]

C21_GetAfterUpdate ==
    \A id \in PathIds, b \in PutBodies :
        LET r == Update(file, now, id, b)
            g == GetById(r.file, id)
        IN r.status = 200 => (g.status = 200 /\ g.body = r.body)

\* An update has been answered 200 with the record that is now stored second.
C21_Witness ==
    /\ res.op = "PUT"
    /\ res.status = 200
    /\ Len(Stored(file)) = 2
    /\ Stored(file)[2] = res.body[1]

\* What the rules of create say of the bodies of PUT /users/:id.
CreateRules == [b \in PutBodies \cup UpdateProbes |-> createUserValidation(b).errors]

\* C22: a PUT /users/:id whose body supplies a name, username or email that
\* the rules of create refuse is answered 400 and leaves the file as it is;
\* a body that supplies none of the three, or only ones that the rules of
\* create accept, is not answered 400.
C22_UpdateValidationRule ==
    \A id \in PathIds, b \in PutBodies \cup UpdateProbes :
        LET r == Update(file, now, id, b)
            broken ==
                \E i \in 1..Len(CreateRules[b]) :
                    /\ CreateRules[b][i].field \in {"name", "username", "email"}
                    /\ b[CreateRules[b][i].field] # Undef
        IN /\ broken => (r.status = 400 /\ r.file = file)
           /\ ~broken => r.status # 400

\* An update has been answered 400 while a record is stored.
C22_Witness ==
    /\ res.op = "PUT"
    /\ res.status = 400
    /\ Len(Stored(file)) >= 1

\* C23: a request whose read of the file fails with an error other than
\* ENOENT is answered 500 and leaves the file as it was.
C23_ReadErrorAnswered500 ==
    [][("readError" \in DOMAIN res' /\ res' # res)
        => (res'.status = 500 /\ file' = file)]_vars

\* A delete has met a file that could not be read while a record is stored.
C23_Witness ==
    /\ "readError" \in DOMAIN res
    /\ res.op = "DELETE"
    /\ Len(Stored(file)) >= 1

\* An error that is no AppError and that errorHandler knows no status for.
Unexpected(err) == ~err.isOperational /\ errorHandler(err).status = 500

\* C24: with NODE_ENV other than development, the body of the answer to an
\* unexpected error is the body of the answer to any other unexpected error.
C24_GenericServerError ==
    (res.op = "ERROR" /\ Unexpected(res.err)) =>
        \A err \in Errors : Unexpected(err) => errorHandler(err).body = res.json

\* C25: a request that is answered 400, 404 or 409 leaves the stored
\* collection as it was.
C25_RefusedLeavesStore ==
    [][(now' = now /\ res'.status \in {400, 404, 409})
        => Stored(file') = Stored(file)]_vars

\* A delete has been answered 404 while a record is stored.
C25_Witness ==
    /\ res.op = "DELETE"
    /\ res.status = 404
    /\ Len(Stored(file)) >= 1

\* The records whose id is not the one of the path, in their order.
Others(users, id) == Selected(users, { u \in Elements(users) : u.id # id })

\* C26: an update answered 200 and a delete answered 204 leave every stored
\* record whose id is not the id of the path as it was.
C26_OtherRecordsKept ==
    \A id \in PathIds :
        /\ \A b \in PutBodies :
              LET r == Update(file, now, id, b)
              IN r.status = 200 => Others(Stored(r.file), id) = Others(Stored(file), id)
        /\ LET r == Remove(file, id)
           IN r.status = 204 => Others(Stored(r.file), id) = Others(Stored(file), id)

\* The first of two records with different ids has been updated.
C26_Witness ==
    /\ res.op = "PUT"
    /\ res.status = 200
    /\ Len(Stored(file)) = 2
    /\ Stored(file)[1] = res.body[1]
    /\ Stored(file)[2].id # res.body[1].id

\* C27: whatever the order in which the reads and the writes of concurrent
\* creates, updates and deletes take place, no two stored records have the
\* same username and no two have the same email.
C27_UniqueUnderInterleaving ==
    \A i \in 1..Len(Stored(file)) :
        \A j \in (i + 1)..Len(Stored(file)) :
            /\ Stored(file)[i].username # Stored(file)[j].username
            /\ Stored(file)[i].email # Stored(file)[j].email

\* Two creates of the same username that read the file before either wrote
\* it have both been answered 201, and the record of the second is the one
\* stored.
C27_Witness ==
    /\ Cardinality(created) = 2
    /\ pending = {}
    /\ res.op = "POST"
    /\ res.status = 201
    /\ Stored(file) = res.body

\* C28: the step that completes a GET /users/:id takes no record out of the
\* file, whatever the other requests in flight are doing.
C28_ReadersKeepRecords ==
    [][\A p \in pending :
         (p.op = "GET" /\ pending' = pending \ {p})
            => Len(Stored(file')) >= Len(Stored(file))]_vars

\* C29: for every stored collection, records with a numeric id included, and
\* every path id, GET /users/:id answers 404 exactly when DELETE /users/:id
\* answers 404 and exactly when a valid PUT /users/:id that is not refused as
\* a duplicate answers 404.
C29_HandlersAgreeOnId ==
    \A id \in PathIds :
        LET absent == GetById(file, id).status = 404
        IN /\ absent <=> (Remove(file, id).status = 404)
           /\ \A b \in PutBodies :
                (/\ Passes("PUT", b)
                 /\ Update(file, now, id, b).status # ConflictStatus)
                    => (absent <=> (Update(file, now, id, b).status = 404))

\* C30: a PUT /users/:id on a stored record whose body supplies neither a
\* username nor an email is never refused as a duplicate.
C30_NoConflictWithoutKeys ==
    \A id \in PathIds :
        \A b \in PutBodies \cup UpdateProbes :
            (/\ TargetIndex(file, id) # 0
             /\ b.username = Undef
             /\ b.email = Undef)
                => Update(file, now, id, b).status # 409

====
